---- MODULE Spec2Model ----
(***************************************************************************)
(* Model of the cp18-app client: the MapRoute component (route fetch,      *)
(* position watch, arrival detection, simulated playback) and the          *)
(* ExteriorCheckScreen checklist.                                          *)
(*                                                                         *)
(* Positions are metres along a line; geolib.getDistance is the absolute   *)
(* difference of two positions.  A coordinate is its position, a step is   *)
(* a record of its position and its bearing.                               *)
(*                                                                         *)
(* setState is applied at the place the code calls it, except inside       *)
(* componentDidUpdate, where React defers it to the end of the handler.    *)
(***************************************************************************)
EXTENDS Integers, Sequences, FiniteSets, TLC

VARIABLES
    state,            \* MapRoute this.state: coordinates, steps, currentCoordinateIndex, destinationReached, isNavigation
    props,            \* MapRoute this.props: showDirections, isNavigation, pauseNavigation
    env,              \* device and dev settings: locationServicesEnabled, permissionGranted, fakeNavigation
    cancelNavigation, \* MapRoute this.cancelNavigation
    watchid,          \* MapRoute this.watchid: "undefined" or "subscription"
    subscribed,       \* the position watch created by watchPositionAsync is active
    mountPc,          \* the await componentDidMount is suspended at
    mountLog,         \* the external calls componentDidMount has made, in order
    sleeping,         \* number of simulateNavigation instances inside asyncSleep(1500)
    pendingStart,     \* number of startNavigation calls awaiting getLocation
    checkLog,         \* checkUserLocation invocations of the last handler
    animateLog,       \* animateNavigation invocations of the last handler
    handler,          \* the last handler that ran
    extState,         \* ExteriorCheckScreen this.state
    alertVisible,     \* the 'Confirmation Request' alert is shown
    navigated,        \* target of the last navigation.navigate call of ExteriorCheckScreen
    app,              \* App observables: isLoadingComplete, initialRoute
    skipLoadingScreen,\* App this.props.skipLoadingScreen
    resources,        \* the promises of _loadResourcesAsync: pending, resolved or rejected
    authenticated,    \* userStore.authenticated
    loadPc,           \* AppLoading: "loading", "errored" or "finished"
    rendered,         \* the outputs of App.render during the last handler
    warned            \* console.warn has been called by _handleLoadingError

mapVars == <<state, props, env, cancelNavigation, watchid, subscribed, mountPc,
             mountLog, sleeping, pendingStart, checkLog, animateLog>>
extVars == <<extState, alertVisible, navigated>>
appVars == <<app, skipLoadingScreen, resources, authenticated, loadPc, rendered, warned>>
vars == <<mapVars, extVars, appVars, handler>>

----------------------------------------------------------------------------
(* Bounds *)

MaxSleeping == 2
MaxPending == 1

(* Program constants *)

ArrivalRadius == 20
ManeuverRadius == 10

(* Inputs *)

Points == {0, 29, 30, 31, 50}

Route1 == [coordinates |-> <<0, 30, 50>>,
           steps |-> <<[position |-> 0, bearing |-> 90],
                       [position |-> 5, bearing |-> 180],
                       [position |-> 40, bearing |-> 270]>>]
Route2 == [coordinates |-> <<50, 30>>,
           steps |-> <<[position |-> 50, bearing |-> 0],
                       [position |-> 30, bearing |-> 90]>>]
Routes == {Route1, Route2}

NoBearing == -1

----------------------------------------------------------------------------
(* MapRoute: helpers *)

getDistance(a, b) == IF a >= b THEN a - b ELSE b - a

\* a value of the JavaScript runtime: a boolean or a promise of a boolean
JsBool(b) == [type |-> "boolean", value |-> b]
JsPromise(b) == [type |-> "promise", value |-> b]
\* the ! operator: an object (a promise) is truthy
JsNot(v) == JsBool(IF v.type = "promise" THEN FALSE ELSE ~v.value)
\* the await operator: resolves a promise, passes any other value through
Await(v) == IF v.type = "promise" THEN JsBool(v.value) ELSE v

isPermissionGranted(granted) == JsPromise(granted)

\* the condition of the if statement guarding the 'Permission' alert
permissionMissing(granted) == Await(JsNot(isPermissionGranted(granted))).value

splice(s, i) == [j \in 1..(Len(s) - 1) |-> IF j < i THEN s[j] ELSE s[j + 1]]

withinManeuver(distance) == distance < ManeuverRadius

RECURSIVE animateLoopAll(_, _, _)
animateLoopAll(s, coords, i) ==
    IF i > Len(s) THEN [steps |-> s, bearing |-> NoBearing]
    ELSE IF withinManeuver(getDistance(coords, s[i].position))
         THEN [steps |-> animateLoopAll(splice(s, i), coords, i).steps,
               bearing |-> s[i].bearing]
         ELSE animateLoopAll(s, coords, i + 1)

\* the for loop of animateNavigation, from index i (1-based)
RECURSIVE animateLoop(_, _, _)
animateLoop(s, coords, i) ==
    IF i > Len(s) THEN [steps |-> s, bearing |-> NoBearing]
    ELSE IF withinManeuver(getDistance(coords, s[i].position))
         THEN [steps |-> splice(s, i), bearing |-> s[i].bearing]
         ELSE animateLoop(s, coords, i + 1)

\* The component while a handler runs: c.state is this.state, c.queued is
\* the setState({isNavigation: true}) React has not applied yet.
Component == [state |-> state, sleeping |-> sleeping, pendingStart |-> pendingStart,
              checkLog |-> <<>>, animateLog |-> <<>>, queued |-> FALSE]

animateNavigation(c, coords) ==
    LET r == animateLoop(c.state.steps, coords, 1)
    IN [c EXCEPT !.state.steps = r.steps,
                 !.animateLog = Append(@, [coords |-> coords,
                                           before |-> c.state.steps,
                                           after |-> r.steps,
                                           bearing |-> r.bearing])]

destinationIsReachedStrict(distance) == distance < ArrivalRadius
destinationIsReached(distance) == distance <= ArrivalRadius

\* the entry checkUserLocation leaves in checkLog: c is the component at
\* entry, c2 at exit; reached says that setState({destinationReached: true})
\* and onDestinationReached() were called
CheckEntry(c, c2, coords, threw, distance, reached) ==
    [c2 EXCEPT !.checkLog = Append(@, [coords |-> coords, threw |-> threw,
                                       distance |-> distance, reached |-> reached,
                                       flagBefore |-> c.state.destinationReached,
                                       flagAfter |-> c2.state.destinationReached])]

checkUserLocation(c, coords) ==
    LET c1 == IF c.state.isNavigation THEN animateNavigation(c, coords) ELSE c
        n == Len(c1.state.coordinates)
    IN IF n = 0
       THEN \* the destination is undefined: getDistance throws, the promise rejects
            CheckEntry(c, c1, coords, TRUE, 0, FALSE)
       ELSE LET distance == getDistance(coords, c1.state.coordinates[n])
            IN IF destinationIsReached(distance)
               THEN CheckEntry(c, [c1 EXCEPT !.state.destinationReached = TRUE],
                               coords, FALSE, distance, TRUE)
               ELSE CheckEntry(c, c1, coords, FALSE, distance, FALSE)

\* the coordinate at a 0-based index, Points' 0 standing for undefined
coordinateAt(c, index) ==
    IF index < Len(c.state.coordinates) THEN c.state.coordinates[index + 1] ELSE 0

simulateNavigationPastEnd(c, pauseNavigation) ==
    IF ~pauseNavigation /\ c.state.currentCoordinateIndex <= Len(c.state.coordinates)
    THEN [checkUserLocation(c, coordinateAt(c, c.state.currentCoordinateIndex))
            EXCEPT !.sleeping = @ + 1]
    ELSE c

\* simulateNavigation up to its await asyncSleep(1500)
simulateNavigation(c, pauseNavigation) ==
    IF ~pauseNavigation /\ c.state.currentCoordinateIndex < Len(c.state.coordinates)
    THEN [checkUserLocation(c, c.state.coordinates[c.state.currentCoordinateIndex + 1])
            EXCEPT !.sleeping = @ + 1]
    ELSE c

afterSleepNoCancel(c, cancel, pauseNavigation) ==
    simulateNavigation(
        [c EXCEPT !.sleeping = @ - 1,
                  !.state.currentCoordinateIndex = @ + 1],
        pauseNavigation)

\* simulateNavigation from the return of asyncSleep(1500) on
afterSleep(c, cancel, pauseNavigation) ==
    IF cancel THEN [c EXCEPT !.sleeping = @ - 1]
    ELSE simulateNavigation(
             [c EXCEPT !.sleeping = @ - 1,
                       !.state.currentCoordinateIndex = @ + 1],
             pauseNavigation)

\* startNavigation up to its await this.getLocation()
startNavigation(c) == [c EXCEPT !.queued = TRUE, !.pendingStart = @ + 1]

\* startNavigation from the return of getLocation on
startNavigationResume(c, currentLocation, fakeNavigation, pauseNavigation) ==
    LET c1 == animateNavigation([c EXCEPT !.pendingStart = @ - 1], currentLocation)
    IN IF fakeNavigation THEN simulateNavigation(c1, pauseNavigation) ELSE c1

componentDidUpdate(c, prevProps, newProps) ==
    LET c1 == IF newProps.isNavigation /\ newProps.isNavigation # prevProps.isNavigation
              THEN startNavigation(c) ELSE c
    IN IF ~newProps.pauseNavigation /\ newProps.pauseNavigation # prevProps.pauseNavigation
       THEN simulateNavigation(c1, newProps.pauseNavigation) ELSE c1

\* React applies the queued setState when the handler has returned
flush(c) == IF c.queued THEN [c EXCEPT !.state.isNavigation = TRUE, !.queued = FALSE] ELSE c

renderConfirmalButton(showConfirmationButton) ==
    IF ~showConfirmationButton \/ ~state.destinationReached THEN "null" ELSE "Confirm Arrival"

renderNavigationButton(showNavigationButton) ==
    IF state.destinationReached \/ state.isNavigation \/ ~showNavigationButton
    THEN "null" ELSE "Start Navigation"

Commit(c, name) ==
    /\ c.sleeping <= MaxSleeping
    /\ c.pendingStart <= MaxPending
    /\ state' = c.state
    /\ sleeping' = c.sleeping
    /\ pendingStart' = c.pendingStart
    /\ checkLog' = c.checkLog
    /\ animateLog' = c.animateLog
    /\ handler' = name

----------------------------------------------------------------------------
(* MapRoute: initial state (constructor, componentDidMount up to its first await) *)

InitMapRoute ==
    /\ state = [coordinates |-> <<>>, steps |-> <<>>, currentCoordinateIndex |-> 0,
                destinationReached |-> FALSE, isNavigation |-> FALSE]
    /\ props \in [showDirections : BOOLEAN, isNavigation : BOOLEAN, pauseNavigation : BOOLEAN]
    /\ env \in [locationServicesEnabled : BOOLEAN, permissionGranted : BOOLEAN,
                fakeNavigation : BOOLEAN]
    /\ cancelNavigation = FALSE
    /\ watchid = "undefined"
    /\ subscribed = FALSE
    /\ mountPc = "getProviderStatusAsync"
    /\ mountLog = <<"getProviderStatusAsync">>
    /\ sleeping = 0
    /\ pendingStart = 0
    /\ checkLog = <<>>
    /\ animateLog = <<>>

InitExteriorCheck ==
    /\ extState = [rearChecked |-> FALSE, driverChecked |-> FALSE, frontChecked |-> FALSE,
                   codriverChecked |-> FALSE, issueModalVisible |-> FALSE]
    /\ alertVisible = FALSE
    /\ navigated = "none"

----------------------------------------------------------------------------
(* App: helpers and initial state *)

ResourceNames == {"assets", "fonts", "userStore"}

\* the output of App.render
render(a, skip) ==
    IF ~a.isLoadingComplete /\ ~skip
    THEN [screen |-> "AppLoading", initialRoute |-> "none"]
    ELSE [screen |-> "AppNavigator", initialRoute |-> a.initialRoute]

\* an assignment to an observable field: the observer renders again when the
\* value has changed; a is the record of the observables and of the renders
assign(a, skip, field, value) ==
    IF a.obs[field] = value THEN a
    ELSE LET obs == [a.obs EXCEPT ![field] = value]
         IN [obs |-> obs, renders |-> Append(a.renders, render(obs, skip))]

initialRouteFor(auth) == IF auth THEN "Main" ELSE "Auth"

_handleFinishLoading(a, skip, auth) ==
    assign(assign(a, skip, "isLoadingComplete", TRUE),
           skip, "initialRoute", initialRouteFor(auth))

InitApp ==
    /\ app = [isLoadingComplete |-> FALSE, initialRoute |-> "Auth"]
    /\ resources = [r \in ResourceNames |-> "pending"]
    /\ authenticated = FALSE
    /\ loadPc = "loading"
    /\ rendered = <<render(app, skipLoadingScreen)>>
    /\ warned = FALSE

Init ==
    /\ InitMapRoute
    /\ InitExteriorCheck
    /\ skipLoadingScreen = FALSE
    /\ InitApp
    /\ handler = "constructor"

----------------------------------------------------------------------------
(* MapRoute: componentDidMount, one action per await *)

afterProviderStatusIgnored(locationServicesEnabled) == "isPermissionGranted"
\* the call componentDidMount makes once getProviderStatusAsync has resolved
afterProviderStatus(locationServicesEnabled) ==
    IF ~locationServicesEnabled THEN "startActivityAsync" ELSE "isPermissionGranted"

\* the call componentDidMount makes once the permission condition is known
afterPermission(granted) ==
    IF permissionMissing(granted) THEN "Alert.alert" ELSE "getLocation"

\* the call componentDidMount makes once getLocation has resolved
afterLocation(showDirections) ==
    IF showDirections THEN "getDirections" ELSE "none"

MountStep(call, awaited) ==
    /\ mountLog' = IF call = "none" THEN mountLog ELSE Append(mountLog, call)
    /\ mountPc' = IF awaited THEN call ELSE "returned"
    /\ handler' = "componentDidMount"
    /\ checkLog' = <<>>
    /\ animateLog' = <<>>

MountProviderStatus ==
    /\ mountPc = "getProviderStatusAsync"
    /\ LET call == afterProviderStatus(env.locationServicesEnabled)
       IN MountStep(call, call = "isPermissionGranted")
    /\ UNCHANGED <<state, props, env, cancelNavigation, watchid, subscribed,
                   sleeping, pendingStart, extVars, appVars>>

MountPermission ==
    /\ mountPc = "isPermissionGranted"
    /\ LET call == afterPermission(env.permissionGranted)
       IN MountStep(call, call = "getLocation")
    /\ UNCHANGED <<state, props, env, cancelNavigation, watchid, subscribed,
                   sleeping, pendingStart, extVars, appVars>>

MountLocation ==
    /\ mountPc = "getLocation"
    /\ LET call == afterLocation(props.showDirections)
       IN MountStep(call, call = "getDirections")
    /\ UNCHANGED <<state, props, env, cancelNavigation, watchid, subscribed,
                   sleeping, pendingStart, extVars, appVars>>

\* getDirections resolves: the route is stored, then the position watch is requested
MountDirections ==
    /\ mountPc = "getDirections"
    /\ \E route \in Routes :
          state' = [state EXCEPT !.coordinates = route.coordinates,
                                 !.steps = route.steps]
    /\ MountStep("watchPositionAsync", TRUE)
    /\ UNCHANGED <<props, env, cancelNavigation, watchid, subscribed,
                   sleeping, pendingStart, extVars, appVars>>

\* the directions request fails: componentDidMount rejects
MountDirectionsRejected ==
    /\ mountPc = "getDirections"
    /\ MountStep("none", FALSE)
    /\ UNCHANGED <<state, props, env, cancelNavigation, watchid, subscribed,
                   sleeping, pendingStart, extVars, appVars>>

MountWatch ==
    /\ mountPc = "watchPositionAsync"
    /\ watchid' = "subscription"
    /\ subscribed' = TRUE
    /\ MountStep("none", FALSE)
    /\ UNCHANGED <<state, props, env, cancelNavigation,
                   sleeping, pendingStart, extVars, appVars>>

----------------------------------------------------------------------------
(* MapRoute: the other handlers *)

componentWillUnmount ==
    /\ ~cancelNavigation
    /\ cancelNavigation' = TRUE
    /\ subscribed' = IF watchid # "undefined" THEN FALSE ELSE subscribed
    /\ handler' = "componentWillUnmount"
    /\ checkLog' = <<>>
    /\ animateLog' = <<>>
    /\ UNCHANGED <<state, props, env, watchid, mountPc, mountLog,
                   sleeping, pendingStart, extVars, appVars>>

\* the parent renders MapRoute with new props
SetProps ==
    /\ ~cancelNavigation
    /\ \E n \in BOOLEAN, p \in BOOLEAN :
          /\ <<n, p>> # <<props.isNavigation, props.pauseNavigation>>
          /\ props' = [props EXCEPT !.isNavigation = n, !.pauseNavigation = p]
          /\ Commit(flush(componentDidUpdate(Component, props, props')), "componentDidUpdate")
    /\ UNCHANGED <<env, cancelNavigation, watchid, subscribed, mountPc, mountLog, extVars, appVars>>

\* the user presses the 'Start Navigation' button
PressStartNavigation ==
    /\ ~cancelNavigation
    /\ renderNavigationButton(TRUE) = "Start Navigation"
    /\ Commit(flush(startNavigation(Component)), "startNavigation")
    /\ UNCHANGED <<props, env, cancelNavigation, watchid, subscribed, mountPc, mountLog, extVars, appVars>>

\* getLocation resolves inside startNavigation
StartNavigationResume ==
    /\ pendingStart > 0
    /\ \E currentLocation \in Points :
          Commit(startNavigationResume(Component, currentLocation, env.fakeNavigation,
                                       props.pauseNavigation),
                 "startNavigation.resume")
    /\ UNCHANGED <<props, env, cancelNavigation, watchid, subscribed, mountPc, mountLog, extVars, appVars>>

\* asyncSleep(1500) resolves inside one simulateNavigation instance
WakeUp ==
    /\ sleeping > 0
    /\ Commit(afterSleep(Component, cancelNavigation, props.pauseNavigation),
              "simulateNavigation.resume")
    /\ UNCHANGED <<props, env, cancelNavigation, watchid, subscribed, mountPc, mountLog, extVars, appVars>>

\* the position watch delivers a location
LocationUpdate ==
    /\ subscribed
    /\ \E coords \in Points :
          Commit(checkUserLocation(Component, coords), "checkUserLocation")
    /\ UNCHANGED <<props, env, cancelNavigation, watchid, subscribed, mountPc, mountLog, extVars, appVars>>

NextMapRoute ==
    \/ MountProviderStatus
    \/ MountPermission
    \/ MountLocation
    \/ MountDirections
    \/ MountDirectionsRejected
    \/ MountWatch
    \/ componentWillUnmount
    \/ SetProps
    \/ PressStartNavigation
    \/ StartNavigationResume
    \/ WakeUp
    \/ LocationUpdate

SpecMapRoute == Init /\ [][NextMapRoute]_vars

\* the parent changes the isNavigation prop and leaves pauseNavigation alone
SetIsNavigation ==
    /\ ~cancelNavigation
    /\ props' = [props EXCEPT !.isNavigation = ~props.isNavigation]
    /\ Commit(flush(componentDidUpdate(Component, props, props')), "componentDidUpdate")
    /\ UNCHANGED <<env, cancelNavigation, watchid, subscribed, mountPc, mountLog, extVars, appVars>>

\* MapRoute with the fakeNavigation setting on and pauseNavigation false
InitPlayback ==
    /\ Init
    /\ env.fakeNavigation
    /\ ~props.pauseNavigation

\* MapRoute never paused and never unmounted
NextPlayback ==
    \/ MountProviderStatus
    \/ MountPermission
    \/ MountLocation
    \/ MountDirections
    \/ MountDirectionsRejected
    \/ MountWatch
    \/ SetIsNavigation
    \/ PressStartNavigation
    \/ StartNavigationResume
    \/ WakeUp
    \/ LocationUpdate

\* the timer of asyncSleep fires and getLocation resolves
SpecPlayback ==
    /\ InitPlayback
    /\ [][NextPlayback]_vars
    /\ WF_vars(WakeUp)
    /\ WF_vars(StartNavigationResume)

----------------------------------------------------------------------------
(* ExteriorCheckScreen *)

CheckIds == {"rearChecked", "driverChecked", "frontChecked", "codriverChecked"}

toggleCheckboxSet(s, id) == [s EXCEPT ![id] = TRUE]
toggleCheckbox(s, id) == [s EXCEPT ![id] = ~s[id]]

itemsCheckedThree(s) == s.rearChecked /\ s.driverChecked /\ s.frontChecked
itemsChecked(s) ==
    s.rearChecked /\ s.driverChecked /\ s.frontChecked /\ s.codriverChecked

\* the disabled prop of the 'Open car' button in render
OpenCarDisabled == ~itemsChecked(extState)

\* the user presses the check mark of one CarCheckItem
PressCheck ==
    /\ \E id \in CheckIds : extState' = toggleCheckbox(extState, id)
    /\ handler' = "toggleCheckbox"
    /\ UNCHANGED <<alertVisible, navigated, mapVars, appVars>>

onPressOpenCar ==
    /\ alertVisible' = IF ~itemsChecked(extState) THEN alertVisible ELSE TRUE
    /\ handler' = "onPressOpenCar"
    /\ UNCHANGED <<extState, navigated, mapVars, appVars>>

\* the user presses OK in the confirmation alert
AlertOK ==
    /\ alertVisible
    /\ alertVisible' = FALSE
    /\ navigated' = "InteriorCheck"
    /\ handler' = "Alert.OK"
    /\ UNCHANGED <<extState, mapVars, appVars>>

\* the user presses Cancel in the confirmation alert or dismisses it
AlertCancel ==
    /\ alertVisible
    /\ alertVisible' = FALSE
    /\ handler' = "Alert.Cancel"
    /\ UNCHANGED <<extState, navigated, mapVars, appVars>>

showIssueModal ==
    /\ extState' = [extState EXCEPT !.issueModalVisible = TRUE]
    /\ handler' = "showIssueModal"
    /\ UNCHANGED <<alertVisible, navigated, mapVars, appVars>>

hideIssueModal ==
    /\ extState' = [extState EXCEPT !.issueModalVisible = FALSE]
    /\ handler' = "hideIssueModal"
    /\ UNCHANGED <<alertVisible, navigated, mapVars, appVars>>

\* the user presses the map preview or the phone icon of the header
PressNavigate ==
    /\ \E target \in {"Map", "Contact"} : navigated' = target
    /\ handler' = "navigate"
    /\ UNCHANGED <<extState, alertVisible, mapVars, appVars>>

NextExteriorCheck ==
    \/ PressCheck
    \/ onPressOpenCar
    \/ AlertOK
    \/ AlertCancel
    \/ showIssueModal
    \/ hideIssueModal
    \/ PressNavigate

\* the screen alone: MapRoute stays as constructed with its default props
InitExteriorCheckScreen ==
    /\ Init
    /\ props = [showDirections |-> TRUE, isNavigation |-> FALSE, pauseNavigation |-> FALSE]
    /\ env = [locationServicesEnabled |-> TRUE, permissionGranted |-> TRUE,
              fakeNavigation |-> FALSE]

SpecExteriorCheck == InitExteriorCheckScreen /\ [][NextExteriorCheck]_vars

----------------------------------------------------------------------------
(* App: AppLoading runs _loadResourcesAsync and reports to the handlers *)

\* one promise of _loadResourcesAsync resolves; userStore.init() settles
\* whether the user is authenticated
ResourceResolved ==
    /\ ~skipLoadingScreen
    /\ \E r \in ResourceNames :
          /\ resources[r] = "pending"
          /\ resources' = [resources EXCEPT ![r] = "resolved"]
          /\ IF r = "userStore"
             THEN authenticated' \in BOOLEAN
             ELSE authenticated' = authenticated
    /\ rendered' = <<>>
    /\ handler' = "_loadResourcesAsync"
    /\ UNCHANGED <<app, skipLoadingScreen, loadPc, warned, mapVars, extVars>>

ResourceRejected ==
    /\ ~skipLoadingScreen
    /\ \E r \in ResourceNames :
          /\ resources[r] = "pending"
          /\ resources' = [resources EXCEPT ![r] = "rejected"]
    /\ rendered' = <<>>
    /\ handler' = "_loadResourcesAsync"
    /\ UNCHANGED <<app, skipLoadingScreen, authenticated, loadPc, warned, mapVars, extVars>>

\* Promise.all has rejected: AppLoading calls onError
LoadingError ==
    /\ ~skipLoadingScreen
    /\ loadPc = "loading"
    /\ \E r \in ResourceNames : resources[r] = "rejected"
    /\ warned' = TRUE
    /\ loadPc' = "errored"
    /\ rendered' = <<>>
    /\ handler' = "_handleLoadingError"
    /\ UNCHANGED <<app, skipLoadingScreen, resources, authenticated, mapVars, extVars>>

\* Promise.all has resolved, or the error has been handled: AppLoading calls onFinish
FinishLoading ==
    /\ ~skipLoadingScreen
    /\ \/ loadPc = "loading" /\ \A r \in ResourceNames : resources[r] = "resolved"
       \/ loadPc = "errored"
    /\ LET a == _handleFinishLoading([obs |-> app, renders |-> <<>>],
                                     skipLoadingScreen, authenticated)
       IN /\ app' = a.obs
          /\ rendered' = a.renders
    /\ loadPc' = "finished"
    /\ handler' = "_handleFinishLoading"
    /\ UNCHANGED <<skipLoadingScreen, resources, authenticated, warned, mapVars, extVars>>

NextApp ==
    \/ ResourceResolved
    \/ ResourceRejected
    \/ LoadingError
    \/ FinishLoading

\* the app shell alone: MapRoute and the checklist stay as constructed
InitAppShell ==
    /\ InitMapRoute
    /\ props = [showDirections |-> TRUE, isNavigation |-> FALSE, pauseNavigation |-> FALSE]
    /\ env = [locationServicesEnabled |-> TRUE, permissionGranted |-> TRUE,
              fakeNavigation |-> FALSE]
    /\ InitExteriorCheck
    /\ skipLoadingScreen \in BOOLEAN
    /\ InitApp
    /\ handler = "constructor"

SpecApp == InitAppShell /\ [][NextApp]_vars

----------------------------------------------------------------------------
(* Properties *)

Last(s) == s[Len(s)]
Has(log, call) == \E k \in 1..Len(log) : log[k] = call
IsPrefix(s, t) == Len(s) <= Len(t) /\ \A k \in 1..Len(s) : s[k] = t[k]

\* C1: every checkUserLocation invocation made with a stored route sets
\* destinationReached (and notifies onDestinationReached) exactly when the
\* distance to the last route coordinate is at most 20 metres, 20 included;
\* an invocation further away leaves the flag as it found it.
ArrivalExactlyWithinTwentyMetres ==
    /\ \A k \in 1..Len(checkLog) :
          LET e == checkLog[k]
          IN ~e.threw =>
                /\ e.reached <=> (e.distance <= 20)
                /\ e.reached => e.flagAfter
                /\ ~e.reached => (e.flagAfter = e.flagBefore)
    /\ checkLog # <<>> => state.destinationReached = Last(checkLog).flagAfter

ArrivalAtExactlyTwentyMetres ==
    \E k \in 1..Len(checkLog) :
        /\ checkLog[k].distance = 20
        /\ ~checkLog[k].flagBefore
        /\ checkLog[k].flagAfter
        /\ state.coordinates # <<>>

AllFourChecked ==
    /\ extState.rearChecked = TRUE
    /\ extState.driverChecked = TRUE
    /\ extState.frontChecked = TRUE
    /\ extState.codriverChecked = TRUE

\* C2: the 'Open car' button is disabled unless all four checklist flags
\* are true; onPressOpenCar shows the confirmation alert only when all four
\* are true at the press and otherwise changes nothing; navigating to
\* InteriorCheck happens only from the alert.
OpenCarOnlyWhenAllChecked ==
    /\ [](OpenCarDisabled <=> ~AllFourChecked)
    /\ [][(~alertVisible /\ alertVisible') => AllFourChecked]_vars
    /\ [][(handler' = "onPressOpenCar" /\ ~AllFourChecked)
             => UNCHANGED <<extState, alertVisible, navigated>>]_vars
    /\ [][(handler' = "onPressOpenCar" /\ AllFourChecked) => alertVisible']_vars
    /\ [][(navigated # "InteriorCheck" /\ navigated' = "InteriorCheck")
             => (alertVisible /\ handler' = "Alert.OK")]_vars

OpenCarAlertShown ==
    /\ handler = "onPressOpenCar"
    /\ alertVisible
    /\ AllFourChecked
    /\ extState.issueModalVisible = FALSE

\* C3: toggleCheckbox(id) negates state[id] and leaves the other three
\* checklist flags and issueModalVisible unchanged; toggling the same id
\* twice restores the state.
ToggleFlipsExactlyOneFlag ==
    /\ [][handler' = "toggleCheckbox" =>
            \E id \in CheckIds :
               /\ extState'[id] = ~extState[id]
               /\ \A other \in (CheckIds \ {id}) \cup {"issueModalVisible"} :
                     extState'[other] = extState[other]]_vars
    /\ [](\A id \in CheckIds : toggleCheckbox(toggleCheckbox(extState, id), id) = extState)

ToggledWithOthersSet ==
    /\ handler = "toggleCheckbox"
    /\ extState.rearChecked
    /\ ~extState.driverChecked
    /\ extState.issueModalVisible

PermissionDeniedStopsMount ==
    (/\ env.locationServicesEnabled
     /\ ~env.permissionGranted
     /\ mountPc \notin {"getProviderStatusAsync", "isPermissionGranted"})
    => /\ Has(mountLog, "Alert.alert")
       /\ ~Has(mountLog, "getLocation")
       /\ ~Has(mountLog, "getDirections")
       /\ ~Has(mountLog, "watchPositionAsync")
       /\ ~subscribed

\* C6: once componentWillUnmount has run, no simulateNavigation instance
\* increments currentCoordinateIndex or reschedules itself: an instance that
\* wakes up after the unmount ends without changing the state.
NoPlaybackAfterUnmount ==
    /\ [][cancelNavigation =>
            state'.currentCoordinateIndex = state.currentCoordinateIndex]_vars
    /\ [][(cancelNavigation /\ handler' = "simulateNavigation.resume") =>
            /\ state' = state
            /\ sleeping' = sleeping - 1
            /\ checkLog' = <<>>
            /\ animateLog' = <<>>]_vars

WokeUpAfterUnmount ==
    /\ cancelNavigation
    /\ handler = "simulateNavigation.resume"
    /\ state.currentCoordinateIndex < Len(state.coordinates)
    /\ ~props.pauseNavigation

\* C7: after MapRoute has unmounted, no position watch created by its
\* componentDidMount is active.
NoWatchAfterUnmount == cancelNavigation => ~subscribed

\* C8: a checkUserLocation invocation more than 20 metres from the
\* destination leaves destinationReached false, so the 'Confirm Arrival'
\* button is not rendered.
ArrivalButtonRemovedWhenAway ==
    (checkLog # <<>> /\ ~Last(checkLog).threw /\ Last(checkLog).distance > 20)
    => /\ state.destinationReached = FALSE
       /\ renderConfirmalButton(TRUE) = "null"

MountOrder == <<"getProviderStatusAsync", "isPermissionGranted", "getLocation",
                "getDirections", "watchPositionAsync">>

InMountOrder(call) == \E k \in 1..Len(MountOrder) : MountOrder[k] = call

\* C9: componentDidMount checks the location services, checks the
\* permission, acquires the location, fetches the route and subscribes the
\* position watch, in this order; the watch is requested only with the route
\* stored and showDirections true; with location services disabled there is
\* no location acquisition, route fetch or subscription.
MountStepsInOrder ==
    /\ IsPrefix(SelectSeq(mountLog, InMountOrder), MountOrder)
    /\ (Has(mountLog, "watchPositionAsync") \/ subscribed \/ watchid # "undefined")
          => (state.coordinates # <<>> /\ props.showDirections)
    /\ Has(mountLog, "getDirections") => props.showDirections
    /\ ~env.locationServicesEnabled =>
          /\ ~Has(mountLog, "getLocation")
          /\ ~Has(mountLog, "getDirections")
          /\ ~Has(mountLog, "watchPositionAsync")
          /\ ~subscribed
          /\ state.coordinates = <<>>

MountSubscribedWatch ==
    /\ subscribed
    /\ mountPc = "returned"
    /\ mountLog = <<"getProviderStatusAsync", "isPermissionGranted", "getLocation",
                    "getDirections", "watchPositionAsync">>

\* the indexes of the steps less than 10 metres from coords
Near(stepList, coords) ==
    {i \in 1..Len(stepList) : getDistance(coords, stepList[i].position) < 10}

AtMostOneLoopInFlight == sleeping <= 1

\* C12: while the pauseNavigation prop is true, currentCoordinateIndex does
\* not change and simulateNavigation issues no checkUserLocation call.
NoAdvanceWhilePaused ==
    [][(props.pauseNavigation /\ props'.pauseNavigation) =>
          /\ state'.currentCoordinateIndex = state.currentCoordinateIndex
          /\ handler' # "checkUserLocation" => checkLog' = <<>>]_vars

\* C13: with fakeNavigation on, a route stored and the component never
\* paused or unmounted, a started playback sets destinationReached and
\* stops with currentCoordinateIndex equal to coordinates.length.
PlaybackStopsAtRouteEnd ==
    (/\ state.currentCoordinateIndex > 0
     /\ sleeping = 0
     /\ pendingStart = 0)
    => /\ state.destinationReached
       /\ state.currentCoordinateIndex = Len(state.coordinates)

\* C14: with skipLoadingScreen unset, the AppNavigator is rendered only
\* after loading has finished, every render of it has initialRoute 'Main'
\* if the user store is authenticated and 'Auth' otherwise, and a loading
\* error changes neither isLoadingComplete nor initialRoute.
NavigatorRouteFollowsAuthentication ==
    /\ [](~skipLoadingScreen =>
            \A k \in 1..Len(rendered) :
               rendered[k].screen = "AppNavigator" =>
                  /\ loadPc = "finished"
                  /\ app.isLoadingComplete
                  /\ rendered[k].initialRoute = IF authenticated THEN "Main" ELSE "Auth")
    /\ [][handler' = "_handleLoadingError" => (app' = app /\ warned')]_vars

\* C15: checkUserLocation is never invoked while state.coordinates is empty.
CheckUserLocationHasDestination ==
    /\ \A k \in 1..Len(checkLog) : ~checkLog[k].threw
    /\ checkLog # <<>> => state.coordinates # <<>>

PlaybackNotStartedWithoutRoute ==
    /\ handler = "componentDidUpdate"
    /\ state.coordinates = <<>>
    /\ ~props.pauseNavigation
    /\ state.isNavigation
    /\ pendingStart > 0
    /\ checkLog = <<>>
    /\ sleeping = 0

\* C16: the playback loop runs and advances currentCoordinateIndex only
\* when the fakeNavigation setting is on and state.isNavigation is true.
PlaybackOnlyWhenFakeNavigation ==
    (sleeping > 0 \/ state.currentCoordinateIndex > 0)
    => (env.fakeNavigation /\ state.isNavigation)

====
